---- MODULE Spec2Model ----
(***************************************************************************)
(* State-machine model of the trim_deadspace endpoint (src/partial.py,     *)
(* with the transcript block also present in src/snippet.py).              *)
(*                                                                         *)
(* Units.  Times are integers in milliseconds (0.05 s = 50, 0.3 s = 300,   *)
(* 0.4 s = 400, 1.5 s = 1500).  no_speech_prob is an integer percentage.   *)
(* confidence is an exact fraction [num, den].  Percentiles and the        *)
(* activity threshold are carried with fixed scale factors (see            *)
(* Percentile100, Threshold2000) so that no rounding is introduced.        *)
(***************************************************************************)
EXTENDS Integers, Sequences, FiniteSets, TLC

VARIABLES
    pc,              \* position of the call inside trim_deadspace
    request,         \* TrimDeadspaceRequest fields the analysis reads
    response,        \* the response dict built up by the call
    audio,           \* decoded PCM: runs of constant loudness plus a partial tail
    timestamps,      \* start time of every complete frame, ms
    energies,        \* per-frame RMS values (one per complete frame)
    threshold,       \* activity threshold, scaled by 2000
    active_flags,    \* per-frame activity flags
    clusters,        \* surviving energy clusters, (start, endExclusive) frame indices
    silence_end_time,\* local silence_end_time (raised by restart detection)
    segments,        \* transcription["segments"] as returned by the recogniser
    filtered_segments, \* local filtered_segments
    restart_cutoff,  \* local restart_cutoff, ms
    usable_segments, \* local usable_segments, after the restart filter
    tail_cluster,    \* local cluster: the tail cluster of the usable segments
    transcript_error,\* exception bound by `except Exception as transcript_error`
    result,          \* what the call hands back to its caller
    files,           \* temp files and remote object touched by the call
    wav_format,      \* rate, sample width and channels read from the wave header
    whisper_model,   \* trim_deadspace._whisper_model is set (kept across calls)
    previous         \* inputs and outcome of the preceding call, if any

vars == << pc, request, response, audio, timestamps, energies, threshold, active_flags,
           clusters, silence_end_time, segments, transcript_error, result, files,
           wav_format, whisper_model, previous,
           filtered_segments, restart_cutoff, usable_segments, tail_cluster >>

\* the locals of the transcript block
refiner_locals == << filtered_segments, restart_cutoff, usable_segments, tail_cluster >>

----------------------------------------------------------------------------
(* Bounds of the model *)

\* longest audio, in runs of constant loudness
MaxRuns == 3

\* longest transcript, in segments
MaxSegs == 2

----------------------------------------------------------------------------
(* Program constants *)

SampleRate == 16000
SampleWidth == 2
DefaultFrameMs == 30
ThresholdFloor == 50
MinActiveMs == 120
MinSegmentMs == 50
NoSpeechCutoff == 90
WindowSlackMs == 300
RestartGapMs == 400
ClusterGapMs == 1500

----------------------------------------------------------------------------
(* Generic helpers *)

Max(a, b) == IF a >= b THEN a ELSE b

Min(a, b) == IF a <= b THEN a ELSE b

Range(s) == { s[i] : i \in 1..Len(s) }

SetMax(S) == CHOOSE x \in S : \A y \in S : y <= x

SetMin(S) == CHOOSE x \in S : \A y \in S : x <= y

\* Python's None, and an absent dict key
None == [kind |-> "None"]

Absent == "<absent>"

\* fractions: Python's float comparisons on exact values
RatLeq(a, b) == a.num * b.den <= b.num * a.den

RatEq(a, b) == a.num * b.den = b.num * a.den

\* Python max(a, b) on two numbers: the first argument wins a tie
RatMax(a, b) == IF RatLeq(a, b) /\ ~RatEq(a, b) THEN b ELSE a

RatZero == [num |-> 0, den |-> 1]

----------------------------------------------------------------------------
(* Inputs *)

\* requests: frameMs (25 is not a supported value), prePadding, postPadding (ms)
Requests ==
    { [frameMs |-> 30, prePadding |-> 80,  postPadding |-> 600],
      [frameMs |-> 20, prePadding |-> 0,   postPadding |-> 0],
      [frameMs |-> 25, prePadding |-> -40, postPadding |-> 600] }

\* loudness (RMS) of a run of audio
RunLevels == {0, 200}

\* duration of a run, ms: every value is a multiple of 10, 20 and 30
RunDurations == {120, 600}

\* trailing audio shorter than one frame, ms
TailDurations == {0, 5}

Runs == [level : RunLevels, dur : RunDurations]

RunSeqs == UNION { [1..n -> Runs] : n \in 0..MaxRuns }

Audios == [runs : RunSeqs, tail : TailDurations]

\* what the wave header of the converted file may declare
WavFormats ==
    { [rate |-> 16000, width |-> 2, channels |-> 1],
      [rate |-> 16000, width |-> 1, channels |-> 1],
      [rate |-> 8000,  width |-> 2, channels |-> 2] }

\* transcript inputs.  Texts: two spellings of one utterance, and another one
TextHiYo == << "H", "i", " ", "y", "o" >>

TextHiYoSpaced == << " ", "h", "i", " ", " ", "y", "o" >>

TextOk == << "O", "k" >>

Segment(s, e, text, nsp, words) ==
    [start |-> s, end |-> e, text |-> text, no_speech_prob |-> nsp, words |-> words]

Word(s, e, text) == [start |-> s, end |-> e, word |-> text]

\* segments the recogniser may report: early, middle and late utterances,
\* a repeat of the early one, a word that ends after its segment, a segment
\* too short to count, one whose only word has no length, and one that is
\* most likely not speech
RawSegments ==
    { Segment(0, 600, TextHiYo, 20, << >>),
      Segment(0, 600, TextOk, 0, << Word(0, 300, << "O" >>), Word(300, 600, << "k", " " >>) >>),
      Segment(1000, 1900, TextHiYoSpaced, 20, << >>),
      Segment(1000, 1900, TextOk, 50, << Word(1000, 2400, TextOk), Word(1500, 1600, << " " >>) >>),
      Segment(2600, 3200, TextHiYo, 20, << >>),
      Segment(2600, 3200, TextOk, 80, << >>),
      Segment(700, 720, TextOk, 20, << >>),
      Segment(700, 800, TextOk, 20, << Word(780, 780, TextOk) >>),
      Segment(0, 600, TextOk, 95, << >>) }

\* transcripts list their segments in time order
Transcripts ==
    { t \in UNION { [1..n -> RawSegments] : n \in 0..MaxSegs } :
        \A i \in 1..(Len(t) - 1) : t[i].start <= t[i + 1].start }

----------------------------------------------------------------------------
(* Request handling and the response dict *)

\* frame_ms = int(request.frameMs); anything but 10, 20, 30 becomes 30
FrameMs(req) ==
    IF req.frameMs \in {10, 20, 30} THEN req.frameMs ELSE DefaultFrameMs

\* the response dict as first built
InitialResponse(req) ==
    [ speechDetected |-> FALSE,
      speechStart    |-> 0,
      speechEnd      |-> 0,
      speechDuration |-> 0,
      trimStart      |-> 0,
      trimEnd        |-> 0,
      duration       |-> 0,
      confidence     |-> RatZero,
      padding        |-> [pre |-> Max(0, req.prePadding),
                          post |-> Max(0, req.postPadding)],
      analysisSource |-> "transcript",
      transcript     |-> None ]

\* `return response | {"error": msg}`
WithError(resp, msg) ==
    [kind |-> "dict", body |-> resp, error |-> msg, traceback |-> FALSE]

\* `return response`
Plain(resp) ==
    [kind |-> "dict", body |-> resp, error |-> Absent, traceback |-> FALSE]

\* the outer handler: `return response | {"error": str(e), "traceback": ...}`
WithTraceback(resp, msg) ==
    [kind |-> "dict", body |-> resp, error |-> msg, traceback |-> TRUE]

\* no return statement was executed yet
Pending == [kind |-> "pending"]

----------------------------------------------------------------------------
(* Framer *)

RECURSIVE SumDur(_)
SumDur(runs) ==
    IF runs = << >> THEN 0 ELSE Head(runs).dur + SumDur(Tail(runs))

\* length of the recording, ms
TotalMs(a) == SumDur(a.runs) + a.tail

\* wf.getnframes(): number of samples
TotalFrames(a) == TotalMs(a) * (SampleRate \div 1000)

\* len(audio): bytes read from the wave file
ByteLen(a) == TotalFrames(a) * SampleWidth

\* frame_byte_count = int(sample_rate * (frame_ms / 1000.0) * sample_width)
FrameByteCount(rate, frame_ms, width) == (rate * frame_ms * width) \div 1000

\* variant: range(0, len(audio), frame_byte_count), which keeps a partial
\* last frame
FrameOffsetsWithPartial(len, fbc) ==
    LET n == (len + fbc - 1) \div fbc
    IN  [k \in 1..n |-> (k - 1) * fbc]

\* range(0, len(audio) - frame_byte_count + 1, frame_byte_count), in order
FrameOffsets(len, fbc) ==
    LET n == IF len - fbc + 1 <= 0 THEN 0 ELSE ((len - fbc) \div fbc) + 1
    IN  [k \in 1..n |-> (k - 1) * fbc]

\* timestamp = (offset / sample_width) / sample_rate, in ms
Timestamp(offset) == (offset * 1000) \div (SampleWidth * SampleRate)

\* variant: the duration of the framed part only (the partial tail dropped)
TotalDurationFramedOnly(a, rate) ==
    IF rate # 0 THEN ((SumDur(a.runs) * (SampleRate \div 1000)) * 1000) \div rate ELSE 0

\* total_duration = total_frames / sample_rate, in ms
TotalDuration(a, rate) ==
    IF rate # 0 THEN (TotalFrames(a) * 1000) \div rate ELSE 0

\* loudness of the audio at time t (ms from the start)
RECURSIVE LevelAt(_, _)
LevelAt(runs, t) ==
    IF runs = << >> THEN 0
    ELSE IF t < Head(runs).dur THEN Head(runs).level
    ELSE LevelAt(Tail(runs), t - Head(runs).dur)

\* rms of the frame that starts at byte `offset`
FrameRms(a, offset) == LevelAt(a.runs, Timestamp(offset))

----------------------------------------------------------------------------
(* Energy detector *)

\* number of entries of e that are <= v
CountLeq(e, v) == Cardinality({ i \in 1..Len(e) : e[i] <= v })

\* k-th smallest entry (k from 0) of the non-empty sequence e
KthSmallest(e, k) ==
    SetMin({ v \in Range(e) : CountLeq(e, v) >= k + 1 })

\* 100 * np.percentile(e, q): linear interpolation between closest ranks
Percentile100(e, q) ==
    LET pos == q * (Len(e) - 1)
        lo  == pos \div 100
        rem == pos % 100
        a   == KthSmallest(e, lo)
        b   == IF rem = 0 THEN a ELSE KthSmallest(e, lo + 1)
    IN  100 * a + rem * (b - a)

\* variant: the threshold without its floor
ThresholdNoFloor(e) ==
    Max(30 * Percentile100(e, 60), 4 * Percentile100(e, 95))

\* 2000 * max(noise_floor * 1.5, signal_peak * 0.2, 50.0)
Threshold2000(e) ==
    Max(Max(30 * Percentile100(e, 60), 4 * Percentile100(e, 95)),
        2000 * ThresholdFloor)

\* active_flags = energies_arr >= threshold
ActiveFlags(e, thr2000) == [i \in 1..Len(e) |-> 2000 * e[i] >= thr2000]

\* min_active_frames = max(2, int(0.12 / frame_duration_sec))
MinActiveFrames(frame_ms) == Max(2, MinActiveMs \div frame_ms)

\* the scan over enumerate(active_flags), one cluster per step: a cluster
\* opens at the first active frame at or after idx and closes at the next
\* inactive frame, or at len(active_flags).  Indices count from 0.
RECURSIVE ScanClusters(_, _)
ScanClusters(flags, idx) ==
    LET starts == { i \in idx..(Len(flags) - 1) : flags[i + 1] }
    IN  IF starts = {} THEN << >>
        ELSE LET start_idx == SetMin(starts)
                 stops     == { j \in start_idx..(Len(flags) - 1) : ~flags[j + 1] }
                 end_idx   == IF stops = {} THEN Len(flags) ELSE SetMin(stops)
             IN  << << start_idx, end_idx >> >> \o ScanClusters(flags, end_idx)

\* variant: a run of exactly min_active_frames frames is dropped
RECURSIVE KeepLongStrict(_, _)
KeepLongStrict(cs, min_active) ==
    IF cs = << >> THEN << >>
    ELSE IF Head(cs)[2] - Head(cs)[1] > min_active
         THEN << Head(cs) >> \o KeepLongStrict(Tail(cs), min_active)
         ELSE KeepLongStrict(Tail(cs), min_active)

\* clusters = [(s, e) for (s, e) in clusters if (e - s) >= min_active_frames]
RECURSIVE KeepLong(_, _)
KeepLong(cs, min_active) ==
    IF cs = << >> THEN << >>
    ELSE IF Head(cs)[2] - Head(cs)[1] >= min_active
         THEN << Head(cs) >> \o KeepLong(Tail(cs), min_active)
         ELSE KeepLong(Tail(cs), min_active)

EnergyClusters(flags, frame_ms) ==
    KeepLong(ScanClusters(flags, 0), MinActiveFrames(frame_ms))

\* timestamps[i] for the frame with index i (from 0)
FrameTime(i, frame_ms) == Timestamp(i * FrameByteCount(SampleRate, frame_ms, SampleWidth))

\* variant: the start of the last cluster instead of the first
SilenceEndTimeLastCluster(cs, frame_ms) == FrameTime(cs[Len(cs)][1], frame_ms)

\* silence_end_time = timestamps[clusters[0][0]]
SilenceEndTime(cs, frame_ms) == FrameTime(cs[1][1], frame_ms)

\* the response.update({...}) after the energy scan
EnergyUpdate(resp, cs, nframes, frame_ms) ==
    LET cluster_start_idx  == cs[Len(cs)][1]
        cluster_end_idx    == cs[Len(cs)][2]
        total_duration     == resp.duration
        silence_end        == SilenceEndTime(cs, frame_ms)
        cluster_start_time == FrameTime(cluster_start_idx, frame_ms)
        last_frame_idx     == Min(cluster_end_idx, nframes) - 1
        cluster_end_time   == Min(total_duration,
                                  FrameTime(last_frame_idx, frame_ms) + frame_ms)
        speech_duration    == Max(0, cluster_end_time - cluster_start_time)
        trim_start         == Max(0, silence_end - resp.padding.pre)
        trim_end           == Min(total_duration, cluster_end_time + resp.padding.post)
    IN  [resp EXCEPT !.speechDetected = TRUE,
                     !.speechStart    = silence_end,
                     !.speechEnd      = cluster_end_time,
                     !.speechDuration = speech_duration,
                     !.trimStart      = trim_start,
                     !.trimEnd        = trim_end,
                     !.confidence     = [num |-> cluster_end_idx - cluster_start_idx,
                                         den |-> Max(1, nframes)]]

----------------------------------------------------------------------------
(* Transcript refiner: text helpers *)

IsSpace(c) == c = " "

\* str.lower() on the letters the transcripts use
LowerChar(c) == IF c = "H" THEN "h" ELSE IF c = "O" THEN "o" ELSE c

RECURSIVE DropLeadingSpace(_)
DropLeadingSpace(t) ==
    IF t # << >> /\ IsSpace(Head(t)) THEN DropLeadingSpace(Tail(t)) ELSE t

RECURSIVE DropTrailingSpace(_)
DropTrailingSpace(t) ==
    IF t # << >> /\ IsSpace(t[Len(t)])
    THEN DropTrailingSpace(SubSeq(t, 1, Len(t) - 1))
    ELSE t

\* str.strip()
Strip(t) == DropTrailingSpace(DropLeadingSpace(t))

\* " ".join(s.split()) on an already stripped string: runs of blanks become one
RECURSIVE CollapseSpace(_)
CollapseSpace(t) ==
    IF t = << >> THEN << >>
    ELSE IF IsSpace(Head(t))
         THEN << " " >> \o CollapseSpace(DropLeadingSpace(t))
         ELSE << Head(t) >> \o CollapseSpace(Tail(t))

\* normalized(text) = " ".join(text.lower().split())
Normalized(t) ==
    CollapseSpace(Strip([i \in 1..Len(t) |-> LowerChar(t[i])]))

----------------------------------------------------------------------------
(* Transcript refiner: segment filtering *)

\* _adjust_time(value) = max(0.0, float(value))
AdjustTime(v) == Max(0, v)

\* variant: word_end is the raw end, not raised to word_start
RECURSIVE BuildWordsRawEnd(_)
BuildWordsRawEnd(ws) ==
    IF ws = << >> THEN << >>
    ELSE LET word       == Head(ws)
             word_start == AdjustTime(word.start)
             word_text  == Strip(word.word)
         IN  (IF word_text # << >>
              THEN << [start |-> word_start, end |-> word.end, text |-> word_text] >>
              ELSE << >>)
             \o BuildWordsRawEnd(Tail(ws))

\* the loop over seg["words"]: words with empty text are skipped
RECURSIVE BuildWords(_)
BuildWords(ws) ==
    IF ws = << >> THEN << >>
    ELSE LET word       == Head(ws)
             word_start == AdjustTime(word.start)
             word_end   == Max(word_start, word.end)
             word_text  == Strip(word.word)
         IN  (IF word_text # << >>
              THEN << [start |-> word_start, end |-> word_end, text |-> word_text] >>
              ELSE << >>)
             \o BuildWords(Tail(ws))

\* variant: a segment of exactly 0.05 s is skipped too
FilterSegmentShortInclusive(seg) ==
    LET text         == Strip(seg.text)
        start        == AdjustTime(seg.start)
        end          == Max(start, seg.end)
        duration_seg == Max(0, end - start)
        words0       == BuildWords(seg.words)
        words        == IF words0 = << >>
                        THEN << [start |-> start, end |-> end, text |-> text] >>
                        ELSE words0
    IN  IF words0 = << >> /\ duration_seg <= 0 THEN << >>
        ELSE IF duration_seg <= MinSegmentMs THEN << >>
        ELSE IF seg.no_speech_prob >= NoSpeechCutoff THEN << >>
        ELSE << [ start          |-> start,
                  end            |-> end,
                  text           |-> text,
                  no_speech_prob |-> seg.no_speech_prob,
                  words          |-> words,
                  firstWordStart |-> words[1].start,
                  lastWordEnd    |-> SetMax({ words[i].end : i \in 1..Len(words) }) ] >>

\* one pass of the loop over segments: << >> if the segment is skipped, else
\* the one-element list holding the filtered segment
FilterSegment(seg) ==
    LET text         == Strip(seg.text)
        start        == AdjustTime(seg.start)
        end          == Max(start, seg.end)
        duration_seg == Max(0, end - start)
        words0       == BuildWords(seg.words)
        words        == IF words0 = << >>
                        THEN << [start |-> start, end |-> end, text |-> text] >>
                        ELSE words0
    IN  IF words0 = << >> /\ duration_seg <= 0 THEN << >>
        ELSE IF duration_seg < MinSegmentMs THEN << >>
        ELSE IF seg.no_speech_prob >= NoSpeechCutoff THEN << >>
        ELSE << [ start          |-> start,
                  end            |-> end,
                  text           |-> text,
                  no_speech_prob |-> seg.no_speech_prob,
                  words          |-> words,
                  firstWordStart |-> words[1].start,
                  lastWordEnd    |-> SetMax({ words[i].end : i \in 1..Len(words) }) ] >>

RECURSIVE FilterSegments(_)
FilterSegments(segs) ==
    IF segs = << >> THEN << >>
    ELSE FilterSegment(Head(segs)) \o FilterSegments(Tail(segs))

----------------------------------------------------------------------------
(* Transcript refiner: windowing, restarts, tail cluster *)

InWindow(seg, window_start, window_end) ==
    /\ seg.lastWordEnd > window_start - WindowSlackMs
    /\ seg.firstWordStart < window_end + WindowSlackMs

\* usable_segments before restart handling
WindowedSegments(filtered, window_start, window_end) ==
    LET inside == SelectSeq(filtered, LAMBDA seg : InWindow(seg, window_start, window_end))
    IN  IF inside = << >> THEN filtered ELSE inside

\* variant: a repeat exactly 0.4 s after the remembered start is a restart too
RECURSIVE RestartScanAtLeast(_, _, _)
RestartScanAtLeast(filtered, seen, cutoff) ==
    IF filtered = << >> THEN cutoff
    ELSE LET text       == Normalized(Head(filtered).text)
             start_time == Head(filtered).firstWordStart
         IN  IF text \in DOMAIN seen /\ start_time - seen[text] >= RestartGapMs
             THEN RestartScanAtLeast(Tail(filtered), seen, Max(cutoff, start_time))
             ELSE RestartScanAtLeast(Tail(filtered), (text :> start_time) @@ seen, cutoff)

\* the loop over normalized_segments; seen maps a normalized text to a start
RECURSIVE RestartScan(_, _, _)
RestartScan(filtered, seen, cutoff) ==
    IF filtered = << >> THEN cutoff
    ELSE LET text       == Normalized(Head(filtered).text)
             start_time == Head(filtered).firstWordStart
         IN  IF text \in DOMAIN seen /\ start_time - seen[text] > RestartGapMs
             THEN RestartScan(Tail(filtered), seen, Max(cutoff, start_time))
             ELSE RestartScan(Tail(filtered), (text :> start_time) @@ seen, cutoff)

RestartCutoff(filtered) == RestartScan(filtered, << >>, 0)

\* usable_segments after `if restart_cutoff > 0.0`
UsableSegments(filtered, cutoff, window_start, window_end) ==
    IF cutoff > 0
    THEN SelectSeq(WindowedSegments(filtered, window_start, window_end),
                   LAMBDA seg : seg.firstWordStart >= cutoff)
    ELSE WindowedSegments(filtered, window_start, window_end)

\* silence_end_time after `if restart_cutoff > 0.0`
AdjustedSilenceEnd(sil, cutoff) == IF cutoff > 0 THEN Max(sil, cutoff) ELSE sil

\* variant: a gap of exactly 1.5 s ends the walk
RECURSIVE TailWalkBelowGap(_, _)
TailWalkBelowGap(rest, cluster) ==
    IF rest = << >> THEN cluster
    ELSE LET seg == rest[Len(rest)]
         IN  IF cluster[1].start - seg.end < ClusterGapMs
             THEN TailWalkBelowGap(SubSeq(rest, 1, Len(rest) - 1), << seg >> \o cluster)
             ELSE cluster

\* the loop over reversed(cluster_source[:-1])
RECURSIVE TailWalk(_, _)
TailWalk(rest, cluster) ==
    IF rest = << >> THEN cluster
    ELSE LET seg == rest[Len(rest)]
         IN  IF cluster[1].start - seg.end <= ClusterGapMs
             THEN TailWalk(SubSeq(rest, 1, Len(rest) - 1), << seg >> \o cluster)
             ELSE cluster

\* cluster, for a non-empty cluster_source
TailCluster(cluster_source) ==
    TailWalk(SubSeq(cluster_source, 1, Len(cluster_source) - 1),
             << cluster_source[Len(cluster_source)] >>)

\* variant: the latest first word of the usable segments
OverallFirstWordLatest(sil, usable) ==
    Max(sil, SetMax({ usable[i].firstWordStart : i \in 1..Len(usable) }))

\* overall_first_word
OverallFirstWord(sil, usable) ==
    Max(sil, SetMin({ usable[i].firstWordStart : i \in 1..Len(usable) }))

\* variant: the head trim is not raised to 0
OverallHeadTrimUnclamped(overall_first_word, pre) == overall_first_word - pre

\* overall_head_trim
OverallHeadTrim(overall_first_word, pre) == Max(0, overall_first_word - pre)

ClusterEnd(cluster) == SetMax({ cluster[i].lastWordEnd : i \in 1..Len(cluster) })

TranscriptTrimEnd(total_duration, cluster_end, post) ==
    Min(total_duration, cluster_end + post)

\* variant: a window that ends exactly at the head trim is accepted too
AcceptsOrEqual(transcript_trim_end, overall_head_trim) ==
    transcript_trim_end >= overall_head_trim

\* `if transcript_trim_end > overall_head_trim`
Accepts(transcript_trim_end, overall_head_trim) ==
    transcript_trim_end > overall_head_trim

\* sum(1.0 - seg["no_speech_prob"] for seg in cluster) / len(cluster)
RECURSIVE SumSpeechProb(_)
SumSpeechProb(cluster) ==
    IF cluster = << >> THEN 0
    ELSE (100 - Head(cluster).no_speech_prob) + SumSpeechProb(Tail(cluster))

\* variant: the sum is not divided by len(cluster)
ClusterConfidenceSum(cluster) ==
    [num |-> SumSpeechProb(cluster), den |-> 100]

ClusterConfidence(cluster) ==
    [num |-> SumSpeechProb(cluster), den |-> 100 * Len(cluster)]

\* the dict stored in transcript_info
TranscriptInfo(overall_first_word, cluster_end, cluster) ==
    [ kind     |-> "dict",
      start    |-> << overall_first_word >>,
      end      |-> << cluster_end >>,
      segments |-> [i \in 1..Len(cluster) |->
                      [ start          |-> cluster[i].firstWordStart,
                        end            |-> cluster[i].lastWordEnd,
                        text           |-> cluster[i].text,
                        words          |-> cluster[i].words,
                        firstWordStart |-> cluster[i].firstWordStart,
                        lastWordEnd    |-> cluster[i].lastWordEnd ]],
      error    |-> Absent ]

\* {"start": None, "end": None, "segments": []}
EmptyTranscript ==
    [kind |-> "dict", start |-> << >>, end |-> << >>, segments |-> << >>,
     error |-> Absent]

\* the dict stored by `except Exception as transcript_error`
FailedTranscript(msg) ==
    [kind |-> "dict", start |-> << >>, end |-> << >>, segments |-> << >>,
     error |-> msg]

\* the assignments under `if transcript_trim_end > overall_head_trim`
AcceptUpdate(resp, sil, overall_first_word, overall_head_trim, cluster) ==
    LET cluster_end  == ClusterEnd(cluster)
        speech_start == Max(overall_first_word, sil)
    IN  [resp EXCEPT !.analysisSource = "transcript",
                     !.speechStart    = speech_start,
                     !.speechEnd      = cluster_end,
                     !.speechDuration = Max(0, cluster_end - speech_start),
                     !.trimStart      = overall_head_trim,
                     !.trimEnd        = TranscriptTrimEnd(resp.duration, cluster_end,
                                                          resp.padding.post),
                     !.confidence     = RatMax(resp.confidence,
                                               ClusterConfidence(cluster))]

\* variant: transcript_info is built whether or not the window is accepted
DecideWindowAlwaysEcho(resp, sil, overall_first_word, overall_head_trim, cluster, cluster_end) ==
    [ response |->
        IF Accepts(TranscriptTrimEnd(resp.duration, cluster_end, resp.padding.post),
                   overall_head_trim)
        THEN AcceptUpdate(resp, sil, overall_first_word, overall_head_trim, cluster)
        ELSE resp,
      transcript_info |-> TranscriptInfo(overall_first_word, cluster_end, cluster) ]

\* the acceptance test and its two outcomes: the response afterwards and
\* transcript_info (None if the transcript window is not accepted)
DecideWindow(resp, sil, overall_first_word, overall_head_trim, cluster, cluster_end) ==
    IF Accepts(TranscriptTrimEnd(resp.duration, cluster_end, resp.padding.post),
               overall_head_trim)
    THEN [ response |-> AcceptUpdate(resp, sil, overall_first_word,
                                     overall_head_trim, cluster),
           transcript_info |-> TranscriptInfo(overall_first_word, cluster_end, cluster) ]
    ELSE [ response |-> resp, transcript_info |-> None ]

RefineCluster(resp, sil, overall_first_word, cluster) ==
    DecideWindow(resp, sil, overall_first_word,
                 OverallHeadTrim(overall_first_word, resp.padding.pre),
                 cluster, ClusterEnd(cluster))

\* the block under `if filtered_segments:` for a non-empty usable list
RefineWindow(resp, sil, usable) ==
    RefineCluster(resp, sil, OverallFirstWord(sil, usable), TailCluster(usable))

----------------------------------------------------------------------------
(* The call, step by step *)

NoAudio == [runs |-> << >>, tail |-> 0]

\* the wave header was not read yet
NoFormat == [rate |-> 0, width |-> 0, channels |-> 0]

\* what ffmpeg is asked to produce: -ac 1 -ar 16000, 16-bit samples
GoodFormat == [rate |-> 16000, width |-> 2, channels |-> 1]

\* no call was made before this one
NoCall == [kind |-> "none"]

Init ==
    /\ pc = "download"
    /\ request \in Requests
    /\ response = InitialResponse(request)
    /\ audio = NoAudio
    /\ timestamps = << >>
    /\ energies = << >>
    /\ threshold = 0
    /\ active_flags = << >>
    /\ clusters = << >>
    /\ silence_end_time = 0
    /\ segments = << >>
    /\ transcript_error = Absent
    /\ result = Pending
    /\ files = [original |-> FALSE, pcm |-> FALSE, remote |-> TRUE,
                deleteAttempted |-> FALSE]
    /\ wav_format = NoFormat
    /\ whisper_model = FALSE
    /\ previous = NoCall
    /\ filtered_segments = << >>
    /\ restart_cutoff = 0
    /\ usable_segments = << >>
    /\ tail_cluster = << >>

\* download (and decrypt) the object, convert it with ffmpeg; any failure
\* is an exception that reaches the outer handler
Download ==
    /\ pc = "download"
    /\ \E ok \in BOOLEAN :
         IF ok
         THEN /\ files' = [files EXCEPT !.original = TRUE, !.pcm = TRUE]
              /\ pc' = "open"
              /\ result' = result
         ELSE /\ files' = [files EXCEPT !.original = TRUE]
              /\ result' = WithTraceback(response, "download failed")
              /\ pc' = "finally"
    /\ UNCHANGED << request, response, audio, timestamps, energies, threshold,
                    active_flags, clusters, silence_end_time, segments,
                    transcript_error, wav_format, whisper_model, previous, refiner_locals >>

\* variant: the declared format is not checked
OpenWaveFromUnchecked(A) ==
    /\ pc = "open"
    /\ \E fmt \in WavFormats : wav_format' = fmt
    /\ \E a \in A : audio' = a
    /\ pc' = "frame"
    /\ UNCHANGED << request, response, timestamps, energies, threshold, active_flags,
                    clusters, silence_end_time, segments, transcript_error, files,
                    whisper_model, previous, refiner_locals, result >>

\* wave.open for a file whose samples are one of the set A: check the
\* declared format, read the samples
OpenWaveFrom(A) ==
    /\ pc = "open"
    /\ \E fmt \in WavFormats :
         /\ wav_format' = fmt
         /\ IF fmt.rate # SampleRate \/ fmt.width # SampleWidth \/ fmt.channels # 1
            THEN /\ result' = WithTraceback(response, "Expected 16kHz mono PCM wav.")
                 /\ pc' = "finally"
                 /\ audio' = audio
            ELSE /\ \E a \in A : audio' = a
                 /\ pc' = "frame"
                 /\ result' = result
    /\ UNCHANGED << request, response, timestamps, energies, threshold, active_flags,
                    clusters, silence_end_time, segments, transcript_error, files,
                    whisper_model, previous, refiner_locals >>

OpenWave == OpenWaveFrom(Audios)

\* cut the samples into frames
Frame ==
    /\ pc = "frame"
    /\ LET frame_ms         == FrameMs(request)
           frame_byte_count == FrameByteCount(SampleRate, frame_ms, SampleWidth)
           offsets          == FrameOffsets(ByteLen(audio), frame_byte_count)
           total_duration   == TotalDuration(audio, SampleRate)
       IN  IF frame_byte_count = 0
           THEN /\ result' = WithTraceback(response,
                        "Frame configuration produced zero-length frames.")
                /\ pc' = "finally"
                /\ UNCHANGED << response, timestamps >>
           ELSE /\ timestamps' = [k \in 1..Len(offsets) |-> Timestamp(offsets[k])]
                /\ response' = [response EXCEPT !.duration = total_duration]
                /\ IF offsets = << >>
                   THEN /\ result' = WithError(response', "Audio too short for analysis.")
                        /\ pc' = "finally"
                   ELSE /\ result' = result
                        /\ pc' = "energy"
    /\ UNCHANGED << request, audio, energies, threshold, active_flags, clusters,
                    silence_end_time, segments, transcript_error, files,
                    wav_format, whisper_model, previous, refiner_locals >>

\* variant: with no surviving cluster the call goes on to the transcript
EnergyNoClusterContinues ==
    /\ pc = "energy"
    /\ LET frame_ms == FrameMs(request)
           e        == [k \in 1..Len(timestamps) |-> LevelAt(audio.runs, timestamps[k])]
           thr      == Threshold2000(e)
           flags    == ActiveFlags(e, thr)
           cs       == EnergyClusters(flags, frame_ms)
       IN  /\ energies' = e
           /\ threshold' = thr
           /\ active_flags' = flags
           /\ clusters' = cs
           /\ result' = result
           /\ pc' = "refine"
           /\ IF cs = << >>
              THEN UNCHANGED << response, silence_end_time >>
              ELSE /\ response' = EnergyUpdate(response, cs, Len(flags), frame_ms)
                   /\ silence_end_time' = SilenceEndTime(cs, frame_ms)
    /\ UNCHANGED << request, audio, timestamps, segments, transcript_error, files,
                    wav_format, whisper_model, previous, refiner_locals >>

\* RMS scan, threshold, clusters, energy window
Energy ==
    /\ pc = "energy"
    /\ LET frame_ms == FrameMs(request)
           e        == [k \in 1..Len(timestamps) |-> LevelAt(audio.runs, timestamps[k])]
           thr      == Threshold2000(e)
           flags    == ActiveFlags(e, thr)
           cs       == EnergyClusters(flags, frame_ms)
       IN  /\ energies' = e
           /\ threshold' = thr
           /\ active_flags' = flags
           /\ clusters' = cs
           /\ IF cs = << >>
              THEN /\ result' = WithError(response,
                          "Unable to detect speech via energy analysis.")
                   /\ pc' = "finally"
                   /\ UNCHANGED << response, silence_end_time >>
              ELSE /\ response' = EnergyUpdate(response, cs, Len(flags), frame_ms)
                   /\ silence_end_time' = SilenceEndTime(cs, frame_ms)
                   /\ result' = result
                   /\ pc' = "refine"
    /\ UNCHANGED << request, audio, timestamps, segments, transcript_error, files,
                    wav_format, whisper_model, previous, refiner_locals >>

\* what str(transcript_error) is when loading the model or transcribing raised
RecogniserFailures == {"model load failed", "transcription failed"}

\* variant: the failure is not caught by the refinement's own handler and
\* reaches the outer one
TranscriptFailurePropagates(msg) ==
    /\ transcript_error' = msg
    /\ response' = response
    /\ result' = WithTraceback(response, msg)
    /\ pc' = "finally"

\* the body of `except Exception as transcript_error`
TranscriptFailure(msg) ==
    /\ transcript_error' = msg
    /\ response' = [response EXCEPT !.transcript = FailedTranscript(msg)]
    /\ result' = Plain(response')
    /\ pc' = "finally"

\* variant: the guard lets a window of no length pass
FinishRefineStrict(refined) ==
    IF refined.response.speechEnd < refined.response.speechStart
    THEN /\ response' = [refined.response EXCEPT !.speechDetected = FALSE]
         /\ result' = WithError(response',
                "Unable to identify speech boundaries from transcript.")
         /\ pc' = "finally"
         /\ transcript_error' = transcript_error
    ELSE /\ transcript_error' = transcript_error
         /\ response' =
              [refined.response EXCEPT
                 !.speechDetected = TRUE,
                 !.transcript = IF refined.transcript_info # None
                                THEN refined.transcript_info
                                ELSE EmptyTranscript]
         /\ result' = result
         /\ pc' = "finally"

\* the end of the try block for a non-empty usable list: final guard,
\* speechDetected, the transcript field
FinishRefine(refined) ==
    IF refined.response.speechEnd <= refined.response.speechStart
    THEN /\ response' = [refined.response EXCEPT !.speechDetected = FALSE]
         /\ result' = WithError(response',
                "Unable to identify speech boundaries from transcript.")
         /\ pc' = "finally"
         /\ transcript_error' = transcript_error
    ELSE /\ transcript_error' = transcript_error
         /\ response' =
              [refined.response EXCEPT
                 !.speechDetected = TRUE,
                 !.transcript = IF refined.transcript_info # None
                                THEN refined.transcript_info
                                ELSE EmptyTranscript]
         /\ result' = result
         /\ pc' = "finally"

\* variant: no `if not filtered_segments` return; the empty list raises
RefineUsableNoEmptyCheck(filtered, usable, sil) ==
    /\ silence_end_time' = sil
    /\ usable_segments' = usable
    /\ IF usable = << >>
       THEN /\ tail_cluster' = tail_cluster
            /\ TranscriptFailure("min() arg is an empty sequence")
       ELSE /\ tail_cluster' = TailCluster(usable)
            /\ FinishRefine(RefineWindow(response, sil, usable))

\* the code after the loop over segments, for the filtered list, the usable
\* list and the adjusted silence end
RefineUsable(filtered, usable, sil) ==
    IF filtered = << >>
    THEN /\ result' = WithError(response, "Transcript contained no spoken words.")
         /\ pc' = "finally"
         /\ UNCHANGED << response, silence_end_time, transcript_error,
                         usable_segments, tail_cluster >>
    ELSE /\ silence_end_time' = sil
         /\ usable_segments' = usable
         /\ IF usable = << >>
            THEN \* min() of an empty sequence raises ValueError
                 /\ tail_cluster' = tail_cluster
                 /\ TranscriptFailure("min() arg is an empty sequence")
            ELSE /\ tail_cluster' = TailCluster(usable)
                 /\ FinishRefine(RefineWindow(response, sil, usable))

\* restart handling for the filtered segments
RefineFiltered(filtered, cutoff) ==
    /\ restart_cutoff' = cutoff
    /\ RefineUsable(filtered,
                    UsableSegments(filtered, cutoff, response.speechStart,
                                   response.speechEnd),
                    AdjustedSilenceEnd(silence_end_time, cutoff))

\* the block after a transcription that returned `segs`: filter the
\* segments, derive the transcript window, decide
RefineSegments(filtered) ==
    /\ filtered_segments' = filtered
    /\ RefineFiltered(filtered, RestartCutoff(filtered))

RefineWith(segs) ==
    /\ segments' = segs
    /\ RefineSegments(FilterSegments(segs))

\* transcript refinement for a recogniser that answers with a transcript of
\* the set T: load the model unless an earlier call left it on the function
\* object, transcribe (either may raise), then refine the window
RefineFrom(T) ==
    /\ pc = "refine"
    /\ \/ /\ ~whisper_model
          /\ whisper_model' = FALSE
          /\ TranscriptFailure("model load failed")
          /\ UNCHANGED << segments, silence_end_time, refiner_locals >>
       \/ /\ whisper_model' = TRUE
          /\ TranscriptFailure("transcription failed")
          /\ UNCHANGED << segments, silence_end_time, refiner_locals >>
       \/ /\ whisper_model' = TRUE
          /\ \E t \in T : RefineWith(t)
    /\ UNCHANGED << request, audio, timestamps, energies, threshold, active_flags,
                    clusters, files, wav_format, previous >>

Refine == RefineFrom(Transcripts)

\* variant: a failed delete_object is not caught; it ends the finally block
\* and replaces the pending return
FinallyDeletionRaises ==
    /\ pc = "finally"
    /\ \E deleted \in BOOLEAN :
         IF deleted
         THEN /\ files' = [original |-> FALSE, pcm |-> FALSE, remote |-> FALSE,
                           deleteAttempted |-> TRUE]
              /\ result' = IF result = Pending THEN None ELSE result
         ELSE /\ files' = [files EXCEPT !.deleteAttempted = TRUE]
              /\ result' = WithTraceback(response, "delete_object failed")
    /\ pc' = "done"
    /\ UNCHANGED << request, response, audio, timestamps, energies, threshold,
                    active_flags, clusters, silence_end_time, segments,
                    transcript_error, wav_format, whisper_model, previous, refiner_locals >>

\* the finally block, then the function's exit: with no return executed the
\* call yields None
Finally ==
    /\ pc = "finally"
    /\ \E deleted \in BOOLEAN :
         files' = [original |-> FALSE, pcm |-> FALSE,
                   remote |-> IF deleted THEN FALSE ELSE files.remote,
                   deleteAttempted |-> TRUE]
    /\ result' = IF result = Pending THEN None ELSE result
    /\ pc' = "done"
    /\ UNCHANGED << request, response, audio, timestamps, energies, threshold,
                    active_flags, clusters, silence_end_time, segments,
                    transcript_error, wav_format, whisper_model, previous, refiner_locals >>

Next ==
    \/ Download
    \/ OpenWave
    \/ Frame
    \/ Energy
    \/ Refine
    \/ Finally

Spec == Init /\ [][Next]_vars

----------------------------------------------------------------------------
(* The energy detector alone, on short recordings with four loudness levels *)

\* longest recording of the energy-only specification, in 30 ms frames
MaxShortFrames == 5

EnergyLevels == {0, 40, 60, 1000}

ShortRuns == [level : EnergyLevels, dur : {DefaultFrameMs}]

ShortAudios ==
    [runs : UNION { [1..n -> ShortRuns] : n \in 0..MaxShortFrames }, tail : {0}]

InitEnergy ==
    /\ pc = "frame"
    /\ request = [frameMs |-> 30, prePadding |-> 80, postPadding |-> 600]
    /\ response = InitialResponse(request)
    /\ audio \in ShortAudios
    /\ timestamps = << >>
    /\ energies = << >>
    /\ threshold = 0
    /\ active_flags = << >>
    /\ clusters = << >>
    /\ silence_end_time = 0
    /\ segments = << >>
    /\ transcript_error = Absent
    /\ result = Pending
    /\ files = [original |-> TRUE, pcm |-> TRUE, remote |-> TRUE,
                deleteAttempted |-> FALSE]
    /\ wav_format = GoodFormat
    /\ whisper_model = FALSE
    /\ previous = NoCall
    /\ filtered_segments = << >>
    /\ restart_cutoff = 0
    /\ usable_segments = << >>
    /\ tail_cluster = << >>

NextEnergy ==
    \/ Frame
    \/ Energy

SpecEnergy == InitEnergy /\ [][NextEnergy]_vars

----------------------------------------------------------------------------
(* Transcript refinement alone, on long recordings with up to three         *)
(* segments chosen to exercise restarts and tail gaps                       *)

\* longest transcript of the refinement-only specification, in segments
MaxLongSegs == 3

TextNo == << "N", "o" >>

\* a state in which the converted file of request req, holding audio a, has
\* just been opened
AtFraming(req, a) ==
    /\ pc = "frame"
    /\ request = req
    /\ response = InitialResponse(req)
    /\ audio = a
    /\ timestamps = << >>
    /\ energies = << >>
    /\ threshold = 0
    /\ active_flags = << >>
    /\ clusters = << >>
    /\ silence_end_time = 0
    /\ segments = << >>
    /\ transcript_error = Absent
    /\ result = Pending
    /\ files = [original |-> TRUE, pcm |-> TRUE, remote |-> TRUE,
                deleteAttempted |-> FALSE]
    /\ wav_format = GoodFormat
    /\ whisper_model = FALSE
    /\ previous = NoCall
    /\ filtered_segments = << >>
    /\ restart_cutoff = 0
    /\ usable_segments = << >>
    /\ tail_cluster = << >>

\* long recordings: a short burst of sound at the start and another after
\* 3 s, or a single one after 0.6 s
LongAudios ==
    { [runs |-> << [level |-> 200, dur |-> 120], [level |-> 0, dur |-> 3000],
                   [level |-> 200, dur |-> 120], [level |-> 0, dur |-> 600] >>,
       tail |-> 0],
      [runs |-> << [level |-> 0, dur |-> 600], [level |-> 200, dur |-> 120],
                   [level |-> 0, dur |-> 3600] >>,
       tail |-> 0] }

\* one utterance repeated 0.3 s, 0.4 s, 0.6 s and 1.1 s after its first start
\* (the last with word times that differ from the segment's), another utterance
\* at the place of the last repeat, and a third utterance 1.5 s and 1.6 s
\* after the end of those
LongSegments ==
    { Segment(0, 500, TextHiYo, 20, << >>),
      Segment(300, 800, TextHiYoSpaced, 20, << >>),
      Segment(400, 900, TextHiYo, 20, << >>),
      Segment(600, 1100, TextHiYo, 20, << >>),
      Segment(1000, 1500, TextHiYoSpaced, 20,
              << Word(1100, 1400, << "h", "i" >>), Word(1200, 1900, << "y", "o" >>) >>),
      Segment(1000, 1500, TextNo, 20, << >>),
      Segment(3000, 3400, TextOk, 20, << >>),
      Segment(3100, 3500, TextOk, 20, << >>) }

LongTranscripts ==
    { t \in UNION { [1..n -> LongSegments] : n \in 0..MaxLongSegs } :
        \A i \in 1..(Len(t) - 1) : t[i].start < t[i + 1].start }

InitRefine == \E req \in Requests : \E a \in LongAudios : AtFraming(req, a)

RefineLong == RefineFrom(LongTranscripts)

NextRefine ==
    \/ Frame
    \/ Energy
    \/ RefineLong
    \/ Finally

SpecRefine == InitRefine /\ [][NextRefine]_vars

----------------------------------------------------------------------------
(* Framer and energy detector alone, for every frame duration, on           *)
(* recordings of loud and silent stretches of 30, 120 and 360 ms            *)

\* longest recording of the framing specification, in stretches
MaxFrameRuns == 5

\* frameMs 10, 20, 30, and 25, which is not supported
FrameRequests ==
    { [frameMs |-> f, prePadding |-> 80, postPadding |-> 600] : f \in {10, 20, 25, 30} }

FrameRuns == [level : {0, 1000}, dur : {30, 120, 360}]

\* a stretch ends where the loudness changes
Alternating(runs) == \A i \in 1..(Len(runs) - 1) : runs[i].level # runs[i + 1].level

FrameAudios ==
    { a \in [runs : UNION { [1..n -> FrameRuns] : n \in 0..MaxFrameRuns },
             tail : TailDurations] : Alternating(a.runs) }

InitFrames == \E req \in FrameRequests : \E a \in FrameAudios : AtFraming(req, a)

NextFrames ==
    \/ Frame
    \/ Energy

SpecFrames == InitFrames /\ [][NextFrames]_vars

----------------------------------------------------------------------------
(* The segment filter on transcripts in any order, with negative times,     *)
(* ends before starts and words out of time order                           *)

\* longest transcript of the filter specification, in segments
MaxFilterSegs == 2

\* 0.6 s of silence, 0.12 s of sound, 3.6 s of silence
FilterAudio ==
    [runs |-> << [level |-> 0, dur |-> 600], [level |-> 200, dur |-> 120],
                 [level |-> 0, dur |-> 3600] >>,
     tail |-> 0]

FilterRequest == [frameMs |-> 30, prePadding |-> 80, postPadding |-> 600]

\* (start, end) of a segment: all before 0, from before 0 to 0.04, exactly
\* 0.05 long, ending before it starts, 0.1 long, and from before 0 to 0.3
FilterSpans ==
    { << -100, -50 >>, << -100, 40 >>, << 0, 50 >>, << 200, 40 >>, << 200, 300 >>,
      << -100, 300 >> }

\* word lists: none, a word before 0, a word that ends before it starts,
\* two words out of time order, and a word of blank text
FilterWords ==
    { << >>,
      << Word(-20, -10, TextOk) >>,
      << Word(250, 100, TextOk) >>,
      << Word(100, 150, << "O" >>), Word(20, 60, << "k" >>) >>,
      << Word(0, 10, << " " >>) >> }

FilterProbs == {89, 90}

FilterSegmentInputs ==
    { Segment(sp[1], sp[2], TextOk, nsp, ws) :
        sp \in FilterSpans, nsp \in FilterProbs, ws \in FilterWords }

FilterTranscripts == UNION { [1..n -> FilterSegmentInputs] : n \in 0..MaxFilterSegs }

InitFilter == AtFraming(FilterRequest, FilterAudio)

RefineFilter == RefineFrom(FilterTranscripts)

NextFilter ==
    \/ Frame
    \/ Energy
    \/ RefineFilter
    \/ Finally

SpecFilter == InitFilter /\ [][NextFilter]_vars

----------------------------------------------------------------------------
(* Three calls in one container: a call, any other call, and the first      *)
(* call's inputs again                                                      *)

\* recordings: too short for a frame, silent, sound from the start, sound
\* after 0.6 s of silence
RepeatAudios ==
    { [runs |-> << >>, tail |-> 5],
      [runs |-> << [level |-> 0, dur |-> 120] >>, tail |-> 0],
      [runs |-> << [level |-> 200, dur |-> 120], [level |-> 0, dur |-> 600] >>,
       tail |-> 0],
      [runs |-> << [level |-> 0, dur |-> 600], [level |-> 200, dur |-> 120] >>,
       tail |-> 5] }

\* transcripts: none, no speech, an utterance, a late word of no length, a
\* repeat whose second occurrence starts the usable list
RepeatTranscripts ==
    { << >>,
      << Segment(0, 600, TextOk, 95, << >>) >>,
      << Segment(0, 600, TextHiYo, 20, << >>) >>,
      << Segment(700, 800, TextOk, 20, << Word(780, 780, TextOk) >>) >>,
      << Segment(0, 600, TextHiYo, 20, << >>),
         Segment(1000, 1900, TextHiYoSpaced, 20, << >>) >> }

\* variant: the response dict outlives the call and is used again
FreshResponseReused(req, old) == old

\* the response dict of a new call: built from the request, whatever the
\* dict `old` of the call before holds
FreshResponse(req, old) == InitialResponse(req)

\* the next call in the same container, for the same request: every local
\* is new, the function attribute _whisper_model stays, and the caller has
\* put the object back into the bucket.  The first call's inputs and
\* outcome are remembered.
Reinvoke ==
    /\ pc = "done"
    /\ previous.kind # "second"
    /\ previous' =
         IF previous.kind = "none"
         THEN [kind |-> "first", downloaded |-> wav_format # NoFormat,
               wav_format |-> wav_format, audio |-> audio, segments |-> segments,
               transcript_error |-> transcript_error, result |-> result,
               response |-> response, changed |-> FALSE]
         ELSE [previous EXCEPT !.kind = "second",
                               !.changed = (audio # previous.audio
                                              \/ segments # previous.segments)]
    /\ response' = FreshResponse(request, response)
    /\ pc' = "download"
    /\ audio' = NoAudio
    /\ timestamps' = << >>
    /\ energies' = << >>
    /\ threshold' = 0
    /\ active_flags' = << >>
    /\ clusters' = << >>
    /\ silence_end_time' = 0
    /\ segments' = << >>
    /\ transcript_error' = Absent
    /\ result' = Pending
    /\ files' = [original |-> FALSE, pcm |-> FALSE, remote |-> TRUE,
                 deleteAttempted |-> FALSE]
    /\ wav_format' = NoFormat
    /\ filtered_segments' = << >>
    /\ restart_cutoff' = 0
    /\ usable_segments' = << >>
    /\ tail_cluster' = << >>
    /\ UNCHANGED << request, whisper_model >>

\* in the third call the download, the wave file and the recogniser behave
\* as they did in the first
Replays ==
    previous.kind = "second" =>
        /\ pc = "download" => ((pc' = "open") <=> previous.downloaded)
        /\ pc = "open" =>
             /\ wav_format' = previous.wav_format
             /\ audio' = previous.audio
        /\ pc = "refine" =>
             /\ segments' = previous.segments
             /\ (transcript_error' \in RecogniserFailures
                   \/ previous.transcript_error \in RecogniserFailures) =>
                  transcript_error' = previous.transcript_error

\* the container may have served calls before: the model may be loaded
InitRepeat ==
    /\ pc = "download"
    /\ request \in Requests
    /\ response = InitialResponse(request)
    /\ audio = NoAudio
    /\ timestamps = << >>
    /\ energies = << >>
    /\ threshold = 0
    /\ active_flags = << >>
    /\ clusters = << >>
    /\ silence_end_time = 0
    /\ segments = << >>
    /\ transcript_error = Absent
    /\ result = Pending
    /\ files = [original |-> FALSE, pcm |-> FALSE, remote |-> TRUE,
                deleteAttempted |-> FALSE]
    /\ wav_format = NoFormat
    /\ whisper_model \in BOOLEAN
    /\ previous = NoCall
    /\ filtered_segments = << >>
    /\ restart_cutoff = 0
    /\ usable_segments = << >>
    /\ tail_cluster = << >>

NextRepeat ==
    \/ Download /\ Replays
    \/ OpenWaveFrom(RepeatAudios) /\ Replays
    \/ Frame
    \/ Energy
    \/ RefineFrom(RepeatTranscripts) /\ Replays
    \/ Finally
    \/ Reinvoke

SpecRepeat == InitRepeat /\ [][NextRepeat]_vars

----------------------------------------------------------------------------
(* Observers used by the properties *)

Done == pc = "done"

Returned == result.kind = "dict"

\* the call ended in the outer exception handler
Fatal == Returned /\ result.traceback

\* the TrimResult the call ends with: the returned dict, or the response
\* dict when the call ends without a return statement
FinalRecord == IF Returned THEN result.body ELSE response

\* the response as the energy stage left it (for clusters # << >>)
EnergyResponse ==
    EnergyUpdate([InitialResponse(request) EXCEPT !.duration = response.duration],
                 clusters, Len(active_flags), FrameMs(request))

\* what refinement computes up to its acceptance test, as one record;
\* reached is FALSE when no segment survives or the usable list is emptied
NoWindow ==
    [reached |-> FALSE, cluster |-> << >>, first_word |-> 0, silence_end |-> 0,
     head_trim |-> 0, cluster_end |-> 0, trim_end |-> 0]

WindowOfCluster(cluster, first_word, sil, cluster_end, resp) ==
    [reached |-> TRUE, cluster |-> cluster, first_word |-> first_word,
     silence_end |-> sil,
     head_trim |-> Max(0, first_word - resp.padding.pre),
     cluster_end |-> cluster_end,
     trim_end |-> Min(resp.duration, cluster_end + resp.padding.post)]

WindowOfTail(cluster, usable, sil, resp) ==
    WindowOfCluster(cluster, OverallFirstWord(sil, usable), sil, ClusterEnd(cluster), resp)

WindowOfUsable(usable, sil, resp) ==
    IF usable = << >> THEN NoWindow
    ELSE WindowOfTail(TailCluster(usable), usable, sil, resp)

WindowOfCutoff(filtered, cutoff, sil, resp) ==
    WindowOfUsable(UsableSegments(filtered, cutoff, resp.speechStart, resp.speechEnd),
                   AdjustedSilenceEnd(sil, cutoff), resp)

WindowOfFiltered(filtered, sil, resp) ==
    IF filtered = << >> THEN NoWindow
    ELSE WindowOfCutoff(filtered, RestartCutoff(filtered), sil, resp)

\* for the transcript segs, the energy stage's silence end and response
TranscriptWindow(segs, sil, resp) == WindowOfFiltered(FilterSegments(segs), sil, resp)

FinalWindow ==
    IF clusters = << >> \/ transcript_error # Absent THEN NoWindow
    ELSE TranscriptWindow(segments, SilenceEndTime(clusters, FrameMs(request)),
                          EnergyResponse)

\* refinement ran to its acceptance test
ReachedAcceptanceTest == FinalWindow.reached

IsAccepted(w) == w.reached /\ w.trim_end > w.head_trim

\* the transcript window was accepted
WindowAccepted == IsAccepted(FinalWindow)

\* the seven fields the energy stage sets are the same in r and s
SameWindow(r, s) ==
    /\ r.speechDetected = s.speechDetected
    /\ r.speechStart = s.speechStart
    /\ r.speechEnd = s.speechEnd
    /\ r.speechDuration = s.speechDuration
    /\ r.trimStart = s.trimStart
    /\ r.trimEnd = s.trimEnd
    /\ r.confidence = s.confidence

ZeroWindow(r) ==
    /\ r.speechDetected = FALSE
    /\ r.speechStart = 0 /\ r.speechEnd = 0 /\ r.speechDuration = 0
    /\ r.trimStart = 0 /\ r.trimEnd = 0

ConfidenceInRange(c) == c.den > 0 /\ 0 <= c.num /\ c.num <= c.den

\* sum over the first n segments of the cluster of (100 - no_speech_prob)
SpeechProbSum(cluster) ==
    LET sum[n \in 0..Len(cluster)] ==
            IF n = 0 THEN 0 ELSE (100 - cluster[n].no_speech_prob) + sum[n - 1]
    IN  sum[Len(cluster)]

\* the confidence c of an accepted window w over the energy confidence e
AcceptedConfidence(c, e, mean) ==
    /\ RatLeq(e, c)
    /\ RatLeq(mean, c)
    /\ RatEq(c, mean) \/ RatEq(c, e)

\* the final confidence c for the refinement outcome w
ConfidenceOf(c, w) ==
    IF IsAccepted(w)
    THEN AcceptedConfidence(c, EnergyResponse.confidence,
                            [num |-> SpeechProbSum(w.cluster),
                             den |-> 100 * Len(w.cluster)])
    ELSE RatEq(c, [num |-> clusters[Len(clusters)][2] - clusters[Len(clusters)][1],
                   den |-> Len(energies)])

\* the final transcript field t for the refinement outcome w
EchoOf(t, w) ==
    IF IsAccepted(w)
    THEN /\ Len(t.segments) = Len(w.cluster)
         /\ t.start = << w.first_word >>
         /\ t.end = << w.cluster_end >>
         /\ transcript_error = Absent
    ELSE /\ t.segments = << >>
         /\ t.start = << >>
         /\ t.end = << >>

\* the step from response r to r2 follows the acceptance rule for outcome w
FollowsAcceptanceRule(r, r2, w) ==
    IF w.trim_end > w.head_trim
    THEN /\ r2.speechStart = Max(w.first_word, w.silence_end)
         /\ r2.speechEnd = w.cluster_end
         /\ r2.trimStart = w.head_trim
         /\ r2.trimEnd = w.trim_end
    ELSE /\ r2.speechStart = r.speechStart
         /\ r2.speechEnd = r.speechEnd
         /\ r2.speechDuration = r.speechDuration
         /\ r2.trimStart = r.trimStart
         /\ r2.trimEnd = r.trimEnd
         /\ r2.confidence = r.confidence

\* v is the k-th smallest entry (k from 0) of e
IsKth(e, v, k) ==
    /\ Cardinality({ i \in 1..Len(e) : e[i] < v }) <= k
    /\ Cardinality({ i \in 1..Len(e) : e[i] <= v }) > k

RankValue(e, k) == CHOOSE v \in Range(e) : IsKth(e, v, k)

\* 100 * (q-th percentile of e), by interpolation between the two ranks
\* around q / 100 * (len - 1)
RankPercentile100(e, q) ==
    LET lo == (q * (Len(e) - 1)) \div 100
        hi == Min(lo + 1, Len(e) - 1)
    IN  100 * RankValue(e, lo)
        + ((q * (Len(e) - 1)) % 100) * (RankValue(e, hi) - RankValue(e, lo))

----------------------------------------------------------------------------
(* Properties *)

C2_ConfidenceInUnitInterval ==
    /\ ConfidenceInRange(response.confidence)
    /\ Returned => ConfidenceInRange(result.body.confidence)
    /\ Done =>
         IF clusters = << >>
         THEN FinalRecord.confidence = RatZero
         ELSE ConfidenceOf(FinalRecord.confidence, FinalWindow)

\* C2 witness: an accepted transcript window whose cluster of two segments
\* raised the confidence above the energy stage's
C2_Witness ==
    /\ Done
    /\ WindowAccepted
    /\ Len(FinalWindow.cluster) = 2
    /\ ~RatEq(response.confidence, EnergyResponse.confidence)

C4_FailureKeepsEnergyWindow ==
    [][ (pc = "refine" /\ transcript_error' # Absent) =>
          /\ SameWindow(response, response')
          /\ response.speechDetected
          /\ response'.transcript.kind = "dict"
          /\ response'.transcript.error = transcript_error'
          /\ result' = Plain(response') ]_vars

\* C4 witness: the call ended after min() raised on an emptied usable list
C4_Witness ==
    /\ Done
    /\ transcript_error = "min() arg is an empty sequence"
    /\ segments # << >>
    /\ Returned
    /\ result.body.speechDetected

\* C5: when the energy stage succeeded, the transcriber returned and no
\* segment survives filtering, the returned result is the energy window
\* unchanged, with the error "Transcript contained no spoken words.", and
\* no refinement failure is recorded.
C5_NoSpokenWordsKeepsEnergyWindow ==
    [][ (pc = "refine" /\ transcript_error' \notin RecogniserFailures
            /\ FilterSegments(segments') = << >>) =>
          /\ response' = response
          /\ transcript_error' = Absent
          /\ response.speechDetected
          /\ response.speechStart = SilenceEndTime(clusters, FrameMs(request))
          /\ result' = WithError(response, "Transcript contained no spoken words.") ]_vars

\* C5 witness: a transcript with segments, none of which survived
C5_Witness ==
    /\ Done
    /\ Returned
    /\ result.error = "Transcript contained no spoken words."
    /\ segments # << >>

\* C6: analysisSource is "energy" in every returned result whose window is
\* the energy-derived one, and "transcript" only when the transcript window
\* was accepted.
C6_AnalysisSourceNamesStage ==
    (Done /\ Returned /\ clusters # << >>) =>
        result.body.analysisSource = IF WindowAccepted THEN "transcript" ELSE "energy"

\* C7 (as stated): in every returned result the transcript field is None
\* whenever the transcript window was not accepted or refinement failed.
C7_EchoAbsentUnlessAccepted ==
    (Done /\ Returned /\ ~WindowAccepted) => result.body.transcript = None

\* C7 (amended): the transcript field lists segments only when the
\* transcript window was accepted, and then it is the accepted cluster with
\* its start and end; in every other result it is None or a placeholder with
\* start = end = None and no segments, which carries the error string after
\* a refinement failure.
C7_EchoPopulatedOnlyWhenAccepted ==
    Done =>
        \/ FinalRecord.transcript = None
        \/ /\ FinalRecord.transcript.kind = "dict"
           /\ FinalRecord.transcript.error = transcript_error
           /\ EchoOf(FinalRecord.transcript, FinalWindow)

\* C7 witness: refinement ran to its acceptance test, the window was not
\* accepted, and the transcript field holds the empty placeholder
C7_Witness ==
    /\ Done
    /\ ReachedAcceptanceTest
    /\ ~WindowAccepted
    /\ FinalRecord.transcript = EmptyTranscript

\* C8: with at least one filtered segment, the transcript window replaces
\* the energy window iff transcriptTrimEnd > overallHeadTrim: then
\* speechStart, speechEnd, trimStart, trimEnd take the transcript values,
\* otherwise the window fields and confidence stay as the energy stage
\* computed them.
C8_AcceptanceRule ==
    [][ (pc = "refine" /\ transcript_error' = Absent
            /\ FilterSegments(segments') # << >>) =>
          FollowsAcceptanceRule(response, response',
                                TranscriptWindow(segments', silence_end_time, response)) ]_vars

\* C8 witness: a transcript window that ends exactly at the head trim and
\* was therefore not accepted
C8_Witness ==
    /\ Done
    /\ ReachedAcceptanceTest
    /\ FinalWindow.trim_end = FinalWindow.head_trim
    /\ SameWindow(response, EnergyResponse)

\* C9: an energy-stage failure yields a partial result: with zero frames
\* the error is "Audio too short for analysis.", with frames but no
\* surviving cluster (a silent clip among them) it is "Unable to detect
\* speech via energy analysis."; in both the speech fields are zero,
\* speechDetected is false and duration is sample count / sample rate.
C9_EnergyFailureIsPartialResult ==
    (Done /\ ~Fatal) =>
        /\ TotalMs(audio) < FrameMs(request) =>
             /\ Returned
             /\ result.error = "Audio too short for analysis."
             /\ ZeroWindow(result.body)
             /\ result.body.duration * SampleRate = TotalFrames(audio) * 1000
        /\ (TotalMs(audio) >= FrameMs(request) /\ clusters = << >>) =>
             /\ Returned
             /\ result.error = "Unable to detect speech via energy analysis."
             /\ ZeroWindow(result.body)
             /\ result.body.duration * SampleRate = TotalFrames(audio) * 1000
        /\ (TotalMs(audio) >= FrameMs(request)
              /\ \A i \in 1..Len(energies) : energies[i] < ThresholdFloor) =>
             clusters = << >>

\* C9 witness: a silent clip with a partial last frame
C9_Witness ==
    /\ Done
    /\ Returned
    /\ result.error = "Unable to detect speech via energy analysis."
    /\ audio.tail > 0
    /\ result.body.duration > 0

\* C10: threshold = max(p60 * 1.5, p95 * 0.2, 50.0) for the 60th and 95th
\* percentiles of the frame RMS values, a frame is active iff its RMS >=
\* threshold; so the threshold is at least 50 and a recording whose frames
\* all have RMS < 50 has no active frame.
C10_ThresholdFormula ==
    (pc \in {"refine", "finally", "done"} /\ energies # << >>) =>
        /\ threshold = Max(Max(30 * RankPercentile100(energies, 60),
                               4 * RankPercentile100(energies, 95)),
                           2000 * 50)
        /\ Len(active_flags) = Len(energies)
        /\ \A i \in 1..Len(energies) :
             active_flags[i] <=> (2000 * energies[i] >= threshold)
        /\ threshold >= 2000 * 50
        /\ (\A i \in 1..Len(energies) : energies[i] < 50) =>
             (\A i \in 1..Len(energies) : ~active_flags[i])

\* C10 witness: the threshold is 0.2 * p95, above the floor and above
\* 1.5 * p60; a frame louder than the floor is inactive, another is active
C10_Witness ==
    /\ pc \in {"refine", "finally"}
    /\ energies # << >>
    /\ threshold = 4 * RankPercentile100(energies, 95)
    /\ threshold > 2000 * 50
    /\ threshold > 30 * RankPercentile100(energies, 60)
    /\ \E i \in 1..Len(energies) : energies[i] >= 50 /\ ~active_flags[i]
    /\ \E i \in 1..Len(energies) : active_flags[i]

\* the segments a and b carry the same normalized text
SameText(a, b) == Normalized(a.text) = Normalized(b.text)

\* positions i < j of f carry a normalized text that no other position has
OccursTwice(f, i, j) ==
    /\ i < j
    /\ SameText(f[i], f[j])
    /\ \A k \in (1..Len(f)) \ {i, j} : ~SameText(f[k], f[i])

\* the transcript block went past restart detection
RestartsScanned == pc \in {"finally", "done"} /\ filtered_segments # << >>

\* C11: when a normalized text occurs in exactly two filtered segments with
\* first-word starts t1 < t2 and t2 - t1 > 0.4 s, restartCutoff >= t2 and
\* the first occurrence is in neither the usable set nor the cluster nor the
\* echoed segments; when every repeated text occurs exactly twice with
\* t2 - t1 <= 0.4 s, no restart is recorded.
C11_RestartOnSecondOccurrence ==
    RestartsScanned =>
        LET f == filtered_segments
            n == Len(f)
        IN  /\ \A i, j \in 1..n :
                 (/\ OccursTwice(f, i, j)
                  /\ f[i].firstWordStart < f[j].firstWordStart
                  /\ f[j].firstWordStart - f[i].firstWordStart > 400) =>
                     /\ restart_cutoff >= f[j].firstWordStart
                     /\ silence_end_time >= f[j].firstWordStart
                     /\ \A k \in 1..Len(usable_segments) : usable_segments[k] # f[i]
                     /\ \A k \in 1..Len(tail_cluster) : tail_cluster[k] # f[i]
                     /\ response.transcript # None =>
                          \A k \in 1..Len(response.transcript.segments) :
                              response.transcript.segments[k].firstWordStart
                                  >= f[j].firstWordStart
            /\ (\A i, j \in 1..n :
                   (i < j /\ SameText(f[i], f[j])) =>
                       /\ OccursTwice(f, i, j)
                       /\ f[j].firstWordStart - f[i].firstWordStart <= 400) =>
                  /\ restart_cutoff = 0
                  /\ silence_end_time = SilenceEndTime(clusters, FrameMs(request))

\* C11 witness: a restart was recorded, the first occurrence was dropped and
\* the later segments were echoed as the accepted cluster
C11_Witness ==
    /\ pc = "done"
    /\ restart_cutoff = 1100
    /\ Len(filtered_segments) = 3
    /\ Len(usable_segments) = 2
    /\ response.transcript # None
    /\ Len(response.transcript.segments) = 2

\* the tail cluster was computed
Clustered == pc \in {"finally", "done"} /\ usable_segments # << >>

\* silence between the end of usable segment k and the start of the next
GapAfter(k) == usable_segments[k + 1].start - usable_segments[k].end

\* position in the usable list of the first segment of the cluster
ClusterFrom == Len(usable_segments) - Len(tail_cluster) + 1

\* C12: the tail cluster is the longest suffix of the usable list, holding
\* its last segment, in which every two consecutive segments are at most
\* 1.5 s apart (next.start - previous.end <= 1.5): a gap of exactly 1.5
\* merges, a larger gap ends the walk and nothing before it is absorbed.
C12_TailClusterIsLongestCloseSuffix ==
    Clustered =>
        /\ Len(tail_cluster) >= 1
        /\ Len(tail_cluster) <= Len(usable_segments)
        /\ tail_cluster = SubSeq(usable_segments, ClusterFrom, Len(usable_segments))
        /\ \A k \in ClusterFrom..(Len(usable_segments) - 1) : GapAfter(k) <= 1500
        /\ ClusterFrom > 1 => GapAfter(ClusterFrom - 1) > 1500

\* C12 witness: three usable segments, the first two 0.5 s apart and the
\* last 1.6 s after them: the cluster is the last segment alone
C12_Witness ==
    /\ Clustered
    /\ Len(usable_segments) = 3
    /\ Len(tail_cluster) = 1
    /\ GapAfter(1) = 500
    /\ GapAfter(2) = 1600

\* t is a time inside the recording of record r
InsideRecording(t, r) == 0 <= t /\ t <= r.duration

\* C13: in every returned result speechStart, speechEnd, trimStart and
\* trimEnd lie in [0, totalDuration], also after an accepted transcript
\* window whose last word ends after the recording does.
C13_TimesInsideRecording ==
    (Done /\ Returned) =>
        /\ InsideRecording(result.body.speechStart, result.body)
        /\ InsideRecording(result.body.speechEnd, result.body)
        /\ InsideRecording(result.body.trimStart, result.body)
        /\ InsideRecording(result.body.trimEnd, result.body)

\* C14: after a refinement that found at least one filtered segment and did
\* not fail, speechEnd <= speechStart gives speechDetected = false and the
\* error "Unable to identify speech boundaries from transcript." in a
\* returned record whose time fields and confidence are the values computed
\* so far; otherwise speechDetected = true.  So an accepted window whose
\* clusterEnd is not after its speechStart is reported as not detected.
C14_FinalGuard ==
    [][ (pc = "refine" /\ transcript_error' = Absent /\ filtered_segments' # << >>) =>
          /\ FollowsAcceptanceRule(response, response',
                                   TranscriptWindow(segments', silence_end_time, response))
          /\ IF response'.speechEnd <= response'.speechStart
             THEN /\ response'.speechDetected = FALSE
                  /\ result'.kind = "dict"
                  /\ result'.error = "Unable to identify speech boundaries from transcript."
                  /\ ~result'.traceback
                  /\ result'.body = response'
             ELSE response'.speechDetected = TRUE ]_vars

\* C14 witness: an accepted transcript window (it moved the trim start off
\* the energy value) whose cluster ends where its speech starts, returned
\* as not detected
C14_Witness ==
    /\ Done
    /\ Returned
    /\ result.error = "Unable to identify speech boundaries from transcript."
    /\ result.body.speechEnd = result.body.speechStart
    /\ result.body.trimEnd > result.body.trimStart
    /\ result.body.trimStart # EnergyResponse.trimStart
    /\ ~result.body.speechDetected

UnusableInput ==
    /\ wav_format # NoFormat
    /\ \/ wav_format.rate # 16000
       \/ wav_format.width # 2
       \/ wav_format.channels # 1
       \/ (wav_format.rate * FrameMs(request) * wav_format.width) \div 1000 = 0

\* C16: when the decoded audio is not 16 kHz / mono / 16-bit, or the frame
\* byte length is zero, the call ends with an error outcome, neither the
\* energy stage nor transcript refinement runs, and no speech field is
\* populated: speechDetected is false, every time field and confidence 0.
C16_FatalInputError ==
    UnusableInput =>
        /\ pc \in {"finally", "done"}
        /\ Returned
        /\ result.error # Absent
        /\ result.traceback
        /\ timestamps = << >> /\ energies = << >> /\ active_flags = << >>
        /\ clusters = << >>
        /\ segments = << >> /\ filtered_segments = << >> /\ transcript_error = Absent
        /\ ZeroWindow(result.body)
        /\ result.body.duration = 0
        /\ result.body.confidence = RatZero
        /\ result.body.transcript = None
        /\ response = result.body

\* C16 witness: a stereo 8 kHz file ended the call in the outer handler
C16_Witness ==
    /\ Done
    /\ wav_format.channels = 2
    /\ wav_format.rate = 8000
    /\ Fatal

\* the call ended with an accepted transcript window and speechDetected
AcceptedAndDetected ==
    /\ Done
    /\ WindowAccepted
    /\ response.speechDetected
    /\ response.transcript # None

\* C17 (as stated): whenever the transcript window is accepted and
\* speechDetected = true, every echoed segment of the accepted cluster has
\* trimStart <= firstWordStart and lastWordEnd <= trimEnd.
C17_ClusterInsideTrimRange ==
    AcceptedAndDetected =>
        \A k \in 1..Len(response.transcript.segments) :
            /\ response.trimStart <= response.transcript.segments[k].firstWordStart
            /\ response.transcript.segments[k].lastWordEnd <= response.trimEnd

\* C17 (amended): whenever the transcript window is accepted and
\* speechDetected = true, the trim range holds of every echoed segment the
\* part that lies after the end of the leading silence (the energy
\* stage's, raised by a restart) and inside the recording:
\* trimStart <= max(firstWordStart, adjustedSilenceEnd) and
\* min(lastWordEnd, totalDuration) <= trimEnd.
C17_ClusterInsideTrimRangeAfterSilence ==
    AcceptedAndDetected =>
        \A k \in 1..Len(response.transcript.segments) :
            /\ response.trimStart
                 <= Max(response.transcript.segments[k].firstWordStart, silence_end_time)
            /\ Min(response.transcript.segments[k].lastWordEnd, response.duration)
                 <= response.trimEnd

\* C17 witness: an accepted cluster of two segments, the first of which
\* starts before the trim range does
C17_Witness ==
    /\ AcceptedAndDetected
    /\ Len(response.transcript.segments) = 2
    /\ response.transcript.segments[1].firstWordStart < response.trimStart

\* the framer ran
Framed == pc \in {"energy", "refine"} \/ (pc \in {"finally", "done"} /\ ~Fatal)

\* the frame duration in effect, ms
EffectiveFrameMs == IF request.frameMs \in {10, 20, 30} THEN request.frameMs ELSE 30

\* len(pcm) in bytes: 16 samples of 2 bytes per ms
PcmBytes == TotalMs(audio) * 16 * 2

\* C18: with the effective frame duration (frameMs if it is 10, 20 or 30,
\* else 30) and frameBytes = 16000 * frameMs / 1000 * 2 the framer yields
\* floor(len(pcm) / frameBytes) frames; frame i (from 0) covers bytes
\* [i * frameBytes, (i + 1) * frameBytes) and has timestamp i * frameMs /
\* 1000: frames are ordered, start at 0, do not overlap, and a trailing
\* partial frame is dropped.
C18_Framing ==
    Framed =>
        LET frameBytes == (16000 * EffectiveFrameMs * 2) \div 1000
            n          == PcmBytes \div frameBytes
        IN  /\ Len(timestamps) = n
            /\ \A i \in 0..(n - 1) :
                 /\ timestamps[i + 1] = i * EffectiveFrameMs
                 /\ (i + 1) * frameBytes <= PcmBytes
            /\ \A i \in 1..(n - 1) : timestamps[i] < timestamps[i + 1]
            /\ PcmBytes - n * frameBytes < frameBytes
            /\ Len(energies) \in {0, n}

\* C18 witness: frameMs = 25 gave 30 ms frames, and the last 5 ms of the
\* recording are in no frame
C18_Witness ==
    /\ pc = "energy"
    /\ request.frameMs = 25
    /\ audio.tail = 5
    /\ Len(timestamps) = 5
    /\ timestamps[5] = 120

\* the energy scan found a cluster and ran to its response.update
EnergyWindowSet == pc \in {"refine", "finally", "done"} /\ clusters # << >>

\* r carries the window derived from the clusters cs over the frame
\* timestamps ts, for frames of frame_ms, with the paddings r reports, which
\* are those of req when req keeps to its non-negative range
IsEnergyWindow(r, cs, ts, frame_ms, req) ==
    LET first_frame == cs[1][1] + 1
        last_frame  == cs[Len(cs)][2]
    IN  /\ r.speechStart = ts[first_frame]
        /\ r.speechEnd = Min(r.duration, ts[last_frame] + frame_ms)
        /\ r.trimStart = Max(0, r.speechStart - r.padding.pre)
        /\ r.trimEnd = Min(r.duration, r.speechEnd + r.padding.post)
        /\ req.prePadding >= 0 => r.padding.pre = req.prePadding
        /\ req.postPadding >= 0 => r.padding.post = req.postPadding

\* C19: when at least one cluster survives, speechStart is the timestamp of
\* the first frame of the first surviving cluster, speechEnd = min(
\* totalDuration, timestamp of the last frame of the last surviving cluster
\* + frameDuration), trimStart = max(0, speechStart - prePadding) and trimEnd
\* = min(totalDuration, speechEnd + postPadding); unless an accepted
\* transcript window overrides them, these are the values the call ends
\* with.
C19_EnergyWindow ==
    (EnergyWindowSet /\ ~WindowAccepted) =>
        /\ IsEnergyWindow(FinalRecord, clusters, timestamps, EffectiveFrameMs, request)
        /\ FinalRecord.duration = TotalDuration(audio, SampleRate)

\* C19 witness: two clusters survived, the recording ends inside the
\* padding after the last one, and the call returned the energy window
\* after the recogniser failed
C19_Witness ==
    /\ Done
    /\ Returned
    /\ Len(clusters) = 2
    /\ transcript_error \in RecogniserFailures
    /\ result.body.speechStart < timestamps[clusters[2][1] + 1]
    /\ result.body.speechEnd < result.body.duration
    /\ result.body.trimEnd = result.body.duration

\* the energy scan ran to its cluster filter
Scanned == pc \in {"refine", "finally", "done"} /\ Len(active_flags) = Len(timestamps)

\* frame i (from 0) exists and is active
ActiveFrame(flags, i) == 0 <= i /\ i < Len(flags) /\ flags[i + 1]

\* [s, e) is a maximal run of active frames
IsMaximalRun(flags, s, e) ==
    /\ 0 <= s /\ s < e /\ e <= Len(flags)
    /\ \A i \in s..(e - 1) : ActiveFrame(flags, i)
    /\ ~ActiveFrame(flags, s - 1)
    /\ ~ActiveFrame(flags, e)

\* the index after the last frame of the active run that frame s is in
RECURSIVE RunEnd(_, _)
RunEnd(flags, s) == IF ActiveFrame(flags, s) THEN RunEnd(flags, s + 1) ELSE s

\* max(2, ceil(0.12 / frameDurationSeconds)), for frames of frame_ms
MinActiveFramesCeil(frame_ms) == Max(2, (120 + frame_ms - 1) \div frame_ms)

\* C20: every surviving energy cluster [start, endExclusive) is a maximal
\* run of active frames whose length is at least minActiveFrames = max(2,
\* ceil(0.12 / frameDurationSeconds)), which is 12, 6, 4 frames for 10, 20,
\* 30 ms; the surviving clusters are ordered by start index and pairwise
\* disjoint, and every maximal active run of at least that length is among
\* them.
C20_ClustersAreLongMaximalRuns ==
    Scanned =>
        LET minActive == MinActiveFramesCeil(EffectiveFrameMs)
        IN  /\ minActive = (CASE EffectiveFrameMs = 10 -> 12
                               [] EffectiveFrameMs = 20 -> 6
                               [] EffectiveFrameMs = 30 -> 4)
            /\ \A k \in 1..Len(clusters) :
                 /\ IsMaximalRun(active_flags, clusters[k][1], clusters[k][2])
                 /\ clusters[k][2] - clusters[k][1] >= minActive
            /\ \A k \in 1..(Len(clusters) - 1) : clusters[k][2] <= clusters[k + 1][1]
            /\ \A s \in 0..(Len(active_flags) - 1) :
                 (ActiveFrame(active_flags, s) /\ ~ActiveFrame(active_flags, s - 1)
                  /\ RunEnd(active_flags, s) - s >= minActive)
                    => \E k \in 1..Len(clusters) :
                          clusters[k] = << s, RunEnd(active_flags, s) >>

\* C20 witness: with 10 ms frames, two runs of exactly 12 active frames
\* survived and a run of 3 active frames did not
C20_Witness ==
    /\ pc = "refine"
    /\ request.frameMs = 10
    /\ Len(clusters) = 2
    /\ clusters[1][2] - clusters[1][1] = 12
    /\ clusters[2][2] - clusters[2][1] = 12
    /\ \E s \in 0..(Len(active_flags) - 1) :
         /\ IsMaximalRun(active_flags, s, s + 3)

\* the recogniser answered and the segment filter ran over its transcript
FilterRan ==
    /\ pc \in {"finally", "done"}
    /\ clusters # << >>
    /\ transcript_error \notin RecogniserFailures

ClampedStart(seg) == IF seg.start < 0 THEN 0 ELSE seg.start

ClampedEnd(seg) == IF seg.end < ClampedStart(seg) THEN ClampedStart(seg) ELSE seg.end

ClampedDuration(seg) == ClampedEnd(seg) - ClampedStart(seg)

\* the text has a character that is not blank
NonEmptyText(t) == \E i \in 1..Len(t) : t[i] # " "

\* the words of seg whose text is not empty
SpokenWords(seg) == SelectSeq(seg.words, LAMBDA w : NonEmptyText(w.word))

\* seg has a word after word construction
HasWordAfterConstruction(seg) == SpokenWords(seg) # << >> \/ ClampedDuration(seg) > 0

Survives(seg) ==
    /\ ClampedDuration(seg) >= 50
    /\ seg.no_speech_prob < 90
    /\ HasWordAfterConstruction(seg)

\* the filtered segment f is the one built from the transcript segment seg
BuiltFrom(f, seg) ==
    /\ f.start = ClampedStart(seg)
    /\ f.end = ClampedEnd(seg)
    /\ f.no_speech_prob = seg.no_speech_prob
    /\ IF SpokenWords(seg) = << >>
       THEN f.words = << [start |-> f.start, end |-> f.end, text |-> f.text] >>
       ELSE Len(f.words) = Len(SpokenWords(seg))

\* C21: a transcript segment becomes a FilteredSegment if and only if its
\* clamped duration (max(start, 0) to max(clamped start, end)) is at least
\* 0.05 s, its noSpeechProbability is below 0.9, and it has at least one
\* word after word construction, where a segment with no non-empty words
\* and positive duration gets one pseudo-word spanning the segment; the
\* surviving segments keep their input order.
C21_SegmentFilter ==
    FilterRan =>
        LET kept == SelectSeq(segments, Survives)
        IN  /\ Len(filtered_segments) = Len(kept)
            /\ \A k \in 1..Len(kept) : BuiltFrom(filtered_segments[k], kept[k])

\* C21 witness: of two segments the first, of exactly 0.05 s and without
\* spoken words, survived with a pseudo-word, and the second, at
\* noSpeechProbability 0.9, did not
C21_Witness ==
    /\ FilterRan
    /\ Len(segments) = 2
    /\ ClampedDuration(segments[1]) = 50
    /\ SpokenWords(segments[1]) = << >>
    /\ segments[1].words # << >>
    /\ segments[2].no_speech_prob = 90
    /\ Len(filtered_segments) = 1
    /\ filtered_segments[1].words = << [start |-> 0, end |-> 50, text |-> TextOk] >>

\* C22: every FilteredSegment satisfies 0 <= firstWordStart <= lastWordEnd
\* and 0 <= start <= end, for any input segment and word times, including
\* negative times, words whose end precedes their start, and words listed
\* out of time order.
C22_FilteredSegmentTimes ==
    \A k \in 1..Len(filtered_segments) :
        /\ 0 <= filtered_segments[k].firstWordStart
        /\ filtered_segments[k].firstWordStart <= filtered_segments[k].lastWordEnd
        /\ 0 <= filtered_segments[k].start
        /\ filtered_segments[k].start <= filtered_segments[k].end

\* C22 witness: a segment that starts before 0 with a word that ends
\* before it starts, and one with words out of time order, both survived
C22_Witness ==
    /\ FilterRan
    /\ Len(segments) = 2
    /\ Len(filtered_segments) = 2
    /\ segments[1].start < 0
    /\ \E i \in 1..Len(segments[1].words) :
         segments[1].words[i].end < segments[1].words[i].start
    /\ Len(segments[2].words) = 2
    /\ segments[2].words[2].start < segments[2].words[1].start

\* C23: whenever at least one FilteredSegment exists, the usable set used
\* for the head boundary and the tail clustering is non-empty after
\* windowing to [speechStart - 0.3, speechEnd + 0.3] and after dropping the
\* segments that start before restartCutoff, also when the restart is
\* detected on a segment outside the energy window.
C23_UsableNeverEmpty ==
    (FilterRan /\ filtered_segments # << >>) => usable_segments # << >>

\* position i of f is the first one with its normalized text
FirstOccurrence(f, i) == \A k \in 1..(i - 1) : ~SameText(f[k], f[i])

\* C24: walking the filtered segments in order, whenever a segment's
\* normalized text was seen before and the segment starts more than 0.4 s
\* after the first occurrence of that text, restartCutoff is at least that
\* segment's start, also when intermediate repeats of the text lie within
\* 0.4 s of each other (occurrences at 0.0, 0.3 and 0.6).
C24_RestartAgainstFirstOccurrence ==
    RestartsScanned =>
        LET f == filtered_segments
        IN  \A i, j \in 1..Len(f) :
                (/\ i < j
                 /\ FirstOccurrence(f, i)
                 /\ SameText(f[i], f[j])
                 /\ f[j].firstWordStart - f[i].firstWordStart > 400) =>
                    restart_cutoff >= f[j].firstWordStart

\* the earliest first-word start among the segments of u
EarliestFirstWord(u) ==
    CHOOSE t \in { u[i].firstWordStart : i \in 1..Len(u) } :
        \A i \in 1..Len(u) : t <= u[i].firstWordStart

\* the speechStart the energy stage derived
EnergySpeechStart == timestamps[clusters[1][1] + 1]

\* r carries the head boundary for the usable segments u, the energy
\* speechStart and the restart cutoff
IsHeadBoundary(r, u, energy_start, cutoff) ==
    LET adjusted == IF cutoff > energy_start THEN cutoff ELSE energy_start
        first    == EarliestFirstWord(u)
    IN  /\ r.speechStart = (IF first > adjusted THEN first ELSE adjusted)
        /\ r.trimStart = (IF r.speechStart > r.padding.pre
                          THEN r.speechStart - r.padding.pre ELSE 0)
        /\ r.speechStart >= energy_start
        /\ r.speechStart >= cutoff

\* C25: overallFirstWord = max(adjusted silence end, min firstWordStart over
\* the usable segments), where the adjusted silence end is the energy
\* speechStart raised to at least restartCutoff, and overallHeadTrim =
\* max(0, overallFirstWord - prePadding); hence on acceptance speechStart is
\* never earlier than the energy-derived speechStart nor than restartCutoff,
\* and trimStart = max(0, speechStart - prePadding).
C25_HeadBoundary ==
    (pc \in {"finally", "done"} /\ WindowAccepted) =>
        /\ IsHeadBoundary(FinalRecord, usable_segments, EnergySpeechStart, restart_cutoff)
        /\ silence_end_time = Max(EnergySpeechStart, restart_cutoff)
        /\ FinalRecord.padding.pre = Max(0, request.prePadding)

\* C25 witness: after a restart the accepted window starts at the restart
\* cutoff, later than the energy window, and the head trim is the padding
\* before it
C25_Witness ==
    /\ Done
    /\ WindowAccepted
    /\ restart_cutoff > EnergySpeechStart
    /\ FinalRecord.speechStart = restart_cutoff
    /\ FinalRecord.trimStart = restart_cutoff - 80
    /\ FinalRecord.speechDetected

\* the errors the framer and the energy detector end the call with
EnergyStageErrors ==
    {"Audio too short for analysis.", "Unable to detect speech via energy analysis."}

\* what an attempt at transcript refinement leaves behind
RefinerState == << whisper_model, segments, transcript_error, refiner_locals >>

\* C26: transcript refinement is attempted only after the framer and the
\* energy detector ran and left at least one surviving cluster; when the
\* energy stage ends in a terminal failure (no frame, no surviving cluster)
\* the call returns that failure without attempting refinement, and no
\* transcript turns it into a detected window.
C26_StageOrdering ==
    [][ /\ pc = "refine" =>
             /\ timestamps # << >>
             /\ Len(energies) = Len(timestamps)
             /\ clusters # << >>
             /\ response.speechDetected
        /\ pc # "refine" => UNCHANGED RefinerState
        /\ (pc \in {"frame", "energy"} /\ pc' = "finally" /\ ~Fatal') =>
             /\ Returned'
             /\ result'.error \in EnergyStageErrors
             /\ ~result'.body.speechDetected
             /\ result'.body.transcript = None
             /\ clusters' = << >>
        /\ (pc = "finally" /\ clusters = << >>) =>
             /\ pc' = "done"
             /\ result' = result ]_vars

\* C26 witness: a recording with sound but no surviving cluster ended the
\* call with the energy failure, and the recogniser was never loaded
C26_Witness ==
    /\ Done
    /\ Returned
    /\ result.error = "Unable to detect speech via energy analysis."
    /\ \E i \in 1..Len(energies) : energies[i] > 0
    /\ clusters = << >>
    /\ RefinerState = << FALSE, << >>, Absent, << << >>, 0, << >>, << >> >> >>

\* C27: in every returned result with speechDetected = true, speechDuration
\* = speechEnd - speechStart, for the energy-only window (also with two or
\* more surviving energy clusters) and for an accepted transcript window.
C27_DurationIsEndMinusStart ==
    (Done /\ Returned /\ result.body.speechDetected) =>
        result.body.speechDuration = result.body.speechEnd - result.body.speechStart

\* C28: every returned result with speechDetected = true carries no
\* top-level error string, and every returned result with a top-level error
\* string has speechDetected = false, in particular on the "Transcript
\* contained no spoken words." path after a successful energy stage.
C28_ErrorAndDetectedAgree ==
    (Done /\ Returned) =>
        /\ result.body.speechDetected => result.error = Absent
        /\ result.error # Absent => ~result.body.speechDetected

\* what the call yields when the return statement executed so far, if any,
\* takes effect
Yields(r) == IF r = Pending THEN None ELSE r

\* C29: on every exit path after the storage client is created (energy
\* failure, transcript fallback, detected window, unexpected exception) the
\* deletion of the remote source object and the removal of both temporary
\* files, when they were created, are attempted before the call returns,
\* and a failed remote deletion neither raises nor changes the returned
\* result.
C29_CleanupOnEveryExit ==
    [][ /\ (pc' = "done" /\ pc # "done") =>
             /\ pc = "finally"
             /\ files'.deleteAttempted
             /\ ~files'.original
             /\ ~files'.pcm
             /\ files'.remote => files.remote
             /\ result' = Yields(result)
             /\ response' = response
        /\ pc' # "done" => ~files'.deleteAttempted /\ files'.remote = files.remote ]_vars

\* C29 witness: the remote deletion failed after the recogniser failed, the
\* temporary files are gone and the energy window was returned
C29_Witness ==
    /\ Done
    /\ files = [original |-> FALSE, pcm |-> FALSE, remote |-> TRUE,
                deleteAttempted |-> TRUE]
    /\ Returned
    /\ transcript_error \in RecogniserFailures
    /\ result.body.speechDetected
    /\ result.error = Absent

====
